---------------------------- MODULE Spec2Model ----------------------------
(***************************************************************************)
(* Model of algorithm.py: generate_random_pairs (the sampling and          *)
(* aggregation loop), write_pairs_to_csv (header and one row per record)   *)
(* and main (generate, then write, then exit).                             *)
(*                                                                         *)
(* Numbers.  A Python float is a dyadic rational; the model keeps          *)
(* FractionBits binary digits after the point, so a coordinate is an       *)
(* integer count of ticks of 1 / 2^FractionBits.  An angle is kept exactly *)
(* as the direction it names: atan2(y, x) is the pair <<y, x>> reduced by  *)
(* gcd, so two angles are equal exactly when the directions are.           *)
(*                                                                         *)
(* Random stream.  random.Random(seed) is a deterministic generator whose  *)
(* whole future is a function of the seed; it is modelled by a full-period *)
(* linear congruential generator over 0 .. RngModulus - 1.                 *)
(***************************************************************************)
EXTENDS Integers, Sequences, FiniteSets, TLC

\* ------------------------------------------------------------------ bounds
MaxIterations == 2      \* iterations is drawn from -1 .. MaxIterations
MaxSamples    == 2      \* samples_per_iteration from -1 .. MaxSamples
MaxCoord      == 5      \* value_range endpoints are -MaxCoord, 0, MaxCoord ticks

\* ------------------------------------------------------- float arithmetic
FractionBits == 2
Resolution == 2 ^ FractionBits          \* ticks per unit

Abs(n) == IF n < 0 THEN -n ELSE n

RECURSIVE Gcd(_, _)
Gcd(a, b) == IF b = 0 THEN a ELSE Gcd(b, a % b)

\* Integer square root by Newton's iteration from the guess r.
RECURSIVE SqrtIter(_, _)
SqrtIter(n, r) ==
    LET next == (r + n \div r) \div 2
    IN  IF next >= r THEN r ELSE SqrtIter(n, next)

Sqrt(n) == IF n = 0 THEN 0 ELSE SqrtIter(n, n)

\* math.hypot(x, y): the Euclidean norm, rounded to the tick grid.
Hypot(x, y) == Sqrt(x * x + y * y)

\* math.atan2(y, x) as the exact direction of the ray; atan2(0, 0) is 0.0,
\* the angle of the positive x axis.
Atan2(y, x) ==
    IF x = 0 /\ y = 0
    THEN <<0, 1>>
    ELSE LET g == Gcd(Abs(y), Abs(x)) IN <<y \div g, x \div g>>

AngleZero        == <<0, 1>>      \* 0
AnglePiOver4     == <<1, 1>>      \* pi / 4
AngleMinus3PiOver4 == <<-1, -1>>  \* -3 pi / 4

\* ---------------------------------------------------------- random stream
RngModulus    == 8
RngMultiplier == 5
RngIncrement  == 1

\* random.Random(seed): the generator's state after seeding.
SeedState(seed) == seed % RngModulus

\* One step of the generator; the new state is also the variate, read as
\* the fraction state / RngModulus of [0, 1).
RngStep(state) == (RngMultiplier * state + RngIncrement) % RngModulus

\* a + (b - a) * random(), for the variate r / RngModulus.
Scale(width, r) ==
    IF width >= 0
    THEN (width * r) \div RngModulus
    ELSE -(((-width) * r) \div RngModulus)

Uniform(lower, upper, r) == lower + Scale(upper - lower, r)

\* The generator a call works with.  `current` is the state of the
\* generator object that existed before the call.
RandomShared(seed, current) == current
Random(seed, current) == SeedState(seed)

\* ------------------------------------------------------- inputs and state
DefaultSeed == 2024

Configs ==
    [ iterations : -1 .. MaxIterations,
      samples    : -1 .. MaxSamples,
      range      : { <<0, MaxCoord>>, <<-MaxCoord, MaxCoord>>,
                     <<MaxCoord, MaxCoord>>, <<MaxCoord, 0>> },
      seed       : { DefaultSeed, DefaultSeed + 1 } ]

NoConfig == [ iterations |-> 0, samples |-> 0, range |-> <<0, 0>>, seed |-> 0 ]

Valid(c) == c.iterations > 0 /\ c.samples > 0 /\ c.range[1] < c.range[2]

None == [ held |-> FALSE ]

VARIABLES
    pc,             \* "idle", "loop", "sample", "returned", "writing", "exit"
    cfg,            \* the keyword arguments of the running call
    rng,            \* state of the most recently used generator object
    draws,          \* number of rng.uniform calls made by the running call
    iteration,      \* loop variable of the outer for
    sample,         \* repetitions of the inner for completed
    final_x,
    final_y,
    derived_pairs,  \* the list being built, then returned
    kept,           \* the caller's variable holding a returned list
    intervening,    \* calls completed since `kept` was assigned
    csv_file,       \* rows of the output file
    written         \* records written so far by write_pairs_to_csv

vars == << pc, cfg, rng, draws, iteration, sample, final_x, final_y,
           derived_pairs, kept, intervening, csv_file, written >>


\* ------------------------------------------------- generate_random_pairs
\* The dataclass constructor IterationPairs(iteration, final_x, ...).
IterationPairsZeroBased(i, fx, fy, r, a) ==
    [ iteration |-> i - 1, final_x |-> fx, final_y |-> fy,
      radius |-> r, angle |-> a ]
IterationPairs(i, fx, fy, r, a) ==
    [ iteration |-> i, final_x |-> fx, final_y |-> fy,
      radius |-> r, angle |-> a ]

\* range(1, iterations + 1): the first value the loop does not take.
RangeStopExclusive(iterations) == iterations
RangeStopAtLeastOnce(iterations) ==
    IF iterations <= 0 THEN 2 ELSE iterations + 1
RangeStop(iterations) == iterations + 1

\* range(samples_per_iteration): the number of repetitions of the inner loop.
InnerRangeAtLeastOnce(samples) == IF samples < 1 THEN 1 ELSE samples
InnerRange(samples) == samples

\* final_x = 0.0 and final_y = 0.0 at the top of the loop body; `previous`
\* is the value the name held at the end of the previous iteration.
InitialSumCarried(previous) == previous
InitialSum(previous) == 0

\* One repetition's two draws: x first, then y, each advancing the stream.
DrawPairYFirst(state, lower, upper) ==
    LET s1 == RngStep(state)
        s2 == RngStep(s1)
    IN  [ x |-> Uniform(lower, upper, s2), y |-> Uniform(lower, upper, s1),
          state |-> s2 ]
DrawPair(state, lower, upper) ==
    LET s1 == RngStep(state)
        s2 == RngStep(s1)
    IN  [ x |-> Uniform(lower, upper, s1), y |-> Uniform(lower, upper, s2),
          state |-> s2 ]

\* radius = math.hypot(final_x, final_y)
RadiusManhattan(fx, fy) == Abs(fx) + Abs(fy)
Radius(fx, fy) == Hypot(fx, fy)

\* angle = math.atan2(final_y, final_y)
AngleStandard(fx, fy) == Atan2(fy, fx)
Angle(fx, fy) == Atan2(fy, fy)

locals == << cfg, draws, iteration, sample, final_x, final_y, derived_pairs >>
caller == << kept, intervening >>
output == << csv_file, written >>

\* The call and the statements before the loop.
Call(c) ==
    /\ pc = "idle"
    /\ pc' = "loop"
    /\ cfg' = c
    /\ rng' = Random(c.seed, rng)
    /\ draws' = 0
    /\ derived_pairs' = << >>
    /\ iteration' = 0
    /\ sample' = 0
    /\ final_x' = 0
    /\ final_y' = 0
    /\ UNCHANGED << caller, output >>

\* The outer for takes its next value and resets the sums.
EnterIteration ==
    /\ pc = "loop"
    /\ iteration + 1 < RangeStop(cfg.iterations)
    /\ iteration' = iteration + 1
    /\ final_x' = InitialSum(final_x)
    /\ final_y' = InitialSum(final_y)
    /\ sample' = 0
    /\ pc' = "sample"
    /\ UNCHANGED << cfg, rng, draws, derived_pairs, caller, output >>

\* One repetition of the inner for.
DrawSample ==
    /\ pc = "sample"
    /\ sample < InnerRange(cfg.samples)
    /\ LET d == DrawPair(rng, cfg.range[1], cfg.range[2])
       IN  /\ rng' = d.state
           /\ final_x' = final_x + d.x
           /\ final_y' = final_y + d.y
    /\ draws' = draws + 2
    /\ sample' = sample + 1
    /\ UNCHANGED << pc, cfg, iteration, derived_pairs, caller, output >>

\* The inner for is exhausted: derive the polar pair and append the record.
AppendRecord ==
    /\ pc = "sample"
    /\ sample >= InnerRange(cfg.samples)
    /\ derived_pairs' =
           Append(derived_pairs,
                  IterationPairs(iteration, final_x, final_y,
                                 Radius(final_x, final_y),
                                 Angle(final_x, final_y)))
    /\ pc' = "loop"
    /\ UNCHANGED << cfg, rng, draws, iteration, sample, final_x, final_y,
                    caller, output >>

\* The outer for is exhausted: return derived_pairs.
ReturnPairs ==
    /\ pc = "loop"
    /\ iteration + 1 >= RangeStop(cfg.iterations)
    /\ pc' = "returned"
    /\ UNCHANGED << locals, rng, caller, output >>

ForgetLocals ==
    /\ cfg' = NoConfig
    /\ draws' = 0
    /\ iteration' = 0
    /\ sample' = 0
    /\ final_x' = 0
    /\ final_y' = 0
    /\ derived_pairs' = << >>

\* The caller assigns the returned list (derived_pairs = generate_random_pairs()).
KeepResult ==
    /\ pc = "returned"
    /\ kept' = [ held |-> TRUE, cfg |-> cfg, pairs |-> derived_pairs ]
    /\ intervening' = FALSE
    /\ pc' = "idle"
    /\ ForgetLocals
    /\ UNCHANGED << rng, output >>

\* The caller drops the returned list.
DiscardResult ==
    /\ pc = "returned"
    /\ intervening' = (intervening \/ (kept.held /\ kept.cfg # cfg))
    /\ pc' = "idle"
    /\ ForgetLocals
    /\ UNCHANGED << rng, kept, output >>


\* ---------------------------------------------------- write_pairs_to_csv
Digits == << "0", "1", "2", "3", "4", "5", "6", "7", "8", "9" >>

\* str(n) of an int, as csv.writer renders a non-string field.
RECURSIVE NatStr(_)
NatStr(n) ==
    IF n < 10 THEN Digits[n + 1] ELSE NatStr(n \div 10) \o Digits[(n % 10) + 1]

IntStr(n) == IF n < 0 THEN "-" \o NatStr(-n) ELSE NatStr(n)

\* The first `places` decimal digits of rem / Resolution, by long division.
\* Resolution is a power of two, so the expansion of a tick count ends
\* within FractionBits digits and the ten digits printed are exact.
RECURSIVE FractionDigits(_, _)
FractionDigits(rem, places) ==
    IF places = 0
    THEN ""
    ELSE Digits[((rem * 10) \div Resolution) + 1]
             \o FractionDigits((rem * 10) % Resolution, places - 1)

Places == 10

\* f"{v:.10f}" of a coordinate or radius.
Format10(v) ==
    (IF v < 0 THEN "-" ELSE "")
        \o NatStr(Abs(v) \div Resolution) \o "."
        \o FractionDigits(Abs(v) % Resolution, Places)

\* f"{angle:.10f}".  atan2(final_y, final_y) has three values; the other
\* axis and diagonal directions are listed for completeness, and any other
\* direction is printed by name.
FormatAngle(a) ==
    CASE a = << 0,  1>> -> "0.0000000000"
      [] a = << 1,  1>> -> "0.7853981634"
      [] a = << 1,  0>> -> "1.5707963268"
      [] a = << 1, -1>> -> "2.3561944902"
      [] a = << 0, -1>> -> "3.1415926536"
      [] a = <<-1, -1>> -> "-2.3561944902"
      [] a = <<-1,  0>> -> "-1.5707963268"
      [] a = <<-1,  1>> -> "-0.7853981634"
      [] OTHER -> "atan2(" \o IntStr(a[1]) \o "," \o IntStr(a[2]) \o ")"

Header ==
    << "iteration", "cartesian_x", "cartesian_y", "polar_radius",
       "polar_angle" >>

\* The list handed to writer.writerow for one record.
CsvRowSwapped(pair) ==
    << IntStr(pair.iteration), Format10(pair.final_y), Format10(pair.final_x),
       Format10(pair.radius), FormatAngle(pair.angle) >>
CsvRow(pair) ==
    << IntStr(pair.iteration), Format10(pair.final_x), Format10(pair.final_y),
       Format10(pair.radius), FormatAngle(pair.angle) >>

\* for pair in pairs: the record taken after `done` records.
NextPairReversed(pairs, done) == pairs[Len(pairs) - done]
NextPair(pairs, done) == pairs[done + 1]

\* output_path.open("w") truncates the file; the header row is written.
OpenAndWriteHeader ==
    /\ pc = "idle"
    /\ kept.held
    /\ csv_file' = << Header >>
    /\ written' = 0
    /\ pc' = "writing"
    /\ UNCHANGED << locals, rng, caller >>

WriteRow ==
    /\ pc = "writing"
    /\ written < Len(kept.pairs)
    /\ csv_file' = Append(csv_file, CsvRow(NextPair(kept.pairs, written)))
    /\ written' = written + 1
    /\ UNCHANGED << pc, locals, rng, caller >>

\* The records are exhausted; the with block closes the file and main ends.
CloseFile ==
    /\ pc = "writing"
    /\ written >= Len(kept.pairs)
    /\ pc' = "exit"
    /\ UNCHANGED << locals, rng, caller, output >>

\* ----------------------------------------------------------- specification
\* A file left by an earlier run, or no file.
StaleFile == << << "stale" >> >>

Init ==
    /\ pc = "idle"
    /\ cfg = NoConfig
    /\ rng = 0
    /\ draws = 0
    /\ iteration = 0
    /\ sample = 0
    /\ final_x = 0
    /\ final_y = 0
    /\ derived_pairs = << >>
    /\ kept = None
    /\ intervening = FALSE
    /\ csv_file \in { << >>, StaleFile }
    /\ written = 0

Next ==
    \/ \E c \in Configs : Call(c)
    \/ EnterIteration
    \/ DrawSample
    \/ AppendRecord
    \/ ReturnPairs
    \/ KeepResult
    \/ DiscardResult
    \/ OpenAndWriteHeader
    \/ WriteRow
    \/ CloseFile

Spec == Init /\ [][Next]_vars


\* ------------------------------------------------------------- properties
InCall == pc \in { "loop", "sample", "returned" }

Max(a, b) == IF a >= b THEN a ELSE b

Sign(n) == IF n > 0 THEN 1 ELSE IF n < 0 THEN -1 ELSE 0

\* Every record the program holds: the list being built or returned and
\* the list the caller kept.
Records ==
    { derived_pairs[k] : k \in 1 .. Len(derived_pairs) }
        \cup (IF kept.held
              THEN { kept.pairs[k] : k \in 1 .. Len(kept.pairs) }
              ELSE { })

\* C1: for every valid configuration the returned sequence has exactly
\* `iterations` records.
C1_LengthEqualsIterations ==
    (pc = "returned" /\ Valid(cfg)) => Len(derived_pairs) = cfg.iterations

C1_Witness ==
    /\ pc = "returned"
    /\ Valid(cfg)
    /\ cfg.iterations = MaxIterations
    /\ Len(derived_pairs) = MaxIterations

C3_Determinism ==
    /\ (pc = "returned" /\ kept.held /\ kept.cfg = cfg) =>
           derived_pairs = kept.pairs
    /\ (InCall /\ draws = 0) => rng = SeedState(cfg.seed)

C3_Witness ==
    /\ pc = "returned"
    /\ kept.held
    /\ kept.cfg = cfg
    /\ intervening
    /\ Valid(cfg)
    /\ draws > 0
    /\ derived_pairs = kept.pairs

\* C4: the angle of a record depends on final_y alone: pi/4 when
\* final_y > 0, -3pi/4 when final_y < 0, 0 when final_y = 0; records with
\* the same sign of final_y have the same angle.
C4_AngleFromFinalYOnly ==
    /\ \A r \in Records :
           /\ r.final_y > 0 => r.angle = AnglePiOver4
           /\ r.final_y < 0 => r.angle = AngleMinus3PiOver4
           /\ r.final_y = 0 => r.angle = AngleZero
    /\ \A r1, r2 \in Records :
           Sign(r1.final_y) = Sign(r2.final_y) => r1.angle = r2.angle

C4_Witness ==
    \E r1, r2, r3 \in Records :
        /\ r1.final_y > 0 /\ r1.final_x # r1.final_y
        /\ r2.final_y < 0 /\ r2.final_x # r2.final_y
        /\ r3.final_y = 0 /\ r3.final_x # 0

\* C5: the radius of a record is the Euclidean norm of the sums stored in
\* the same record, to the resolution of the arithmetic.
C5_RadiusIsNorm ==
    \A r \in Records :
        LET n == r.final_x * r.final_x + r.final_y * r.final_y
        IN  /\ r.radius >= 0
            /\ r.radius * r.radius <= n
            /\ n < (r.radius + 1) * (r.radius + 1)

C5_Witness ==
    \E r \in Records :
        /\ r.final_x # 0
        /\ r.final_y # 0
        /\ r.final_x # r.final_y
        /\ r.radius > Abs(r.final_x)
        /\ r.radius > Abs(r.final_y)


\* The sums of a record lie in [0, samples_per_iteration * upper).
SumsBounded(r) ==
    /\ 0 <= r.final_x
    /\ r.final_x < cfg.samples * cfg.range[2]
    /\ 0 <= r.final_y
    /\ r.final_y < cfg.samples * cfg.range[2]

ZeroBasedRange == cfg.range[1] = 0 /\ cfg.range[2] > 0

\* C6 as stated: with lower = 0 and upper > 0 every record's sums lie in
\* [0, samples_per_iteration * upper), whatever samples_per_iteration is.
C6_SumsBoundedAnySamples ==
    (InCall /\ ZeroBasedRange) =>
        \A k \in 1 .. Len(derived_pairs) : SumsBounded(derived_pairs[k])

\* C6 amended: with lower = 0, upper > 0 and samples_per_iteration >= 1
\* every record's sums lie in [0, samples_per_iteration * upper), at every
\* iteration index; with samples_per_iteration <= 0 the sums are 0, which
\* the then empty interval does not contain.
C6_SumsBounded ==
    (InCall /\ ZeroBasedRange) =>
        \A k \in 1 .. Len(derived_pairs) :
            IF cfg.samples >= 1
            THEN SumsBounded(derived_pairs[k])
            ELSE /\ derived_pairs[k].final_x = 0
                 /\ derived_pairs[k].final_y = 0
                 /\ ~SumsBounded(derived_pairs[k])

C6_Witness ==
    /\ pc = "returned"
    /\ ZeroBasedRange
    /\ cfg.samples >= 1
    /\ Len(derived_pairs) = MaxIterations
    /\ \E i, j \in 1 .. Len(derived_pairs) :
           /\ i < j
           /\ derived_pairs[j].final_y > 0
           /\ derived_pairs[i].final_y + derived_pairs[j].final_y
                  >= cfg.samples * cfg.range[2]

\* C7: with samples_per_iteration = 0 and iterations > 0 the call draws
\* nothing and returns `iterations` records whose sums and radius are 0
\* and whose angle is atan2(0, 0) = 0.
C7_ZeroSamples ==
    (InCall /\ cfg.samples = 0 /\ cfg.iterations > 0) =>
        /\ draws = 0
        /\ rng = SeedState(cfg.seed)
        /\ \A k \in 1 .. Len(derived_pairs) :
               /\ derived_pairs[k].final_x = 0
               /\ derived_pairs[k].final_y = 0
               /\ derived_pairs[k].radius = 0
               /\ derived_pairs[k].angle = AngleZero
        /\ pc = "returned" => Len(derived_pairs) = cfg.iterations

C7_Witness ==
    /\ pc = "returned"
    /\ cfg.samples = 0
    /\ cfg.iterations = MaxIterations
    /\ Len(derived_pairs) = MaxIterations

\* The row the file must carry for a record: iteration, final_x, final_y,
\* radius, angle, in that order.
ExpectedRow(p) ==
    << IntStr(p.iteration), Format10(p.final_x), Format10(p.final_y),
       Format10(p.radius), FormatAngle(p.angle) >>

\* C8: the file holds the header row first and then one row per record in
\* the order of the sequence: while writing, the header and the rows of
\* the first `written` records; when closed, len(pairs) + 1 rows.
C8_HeaderThenRowsInOrder ==
    (pc \in { "writing", "exit" }) =>
        /\ Len(csv_file) = written + 1
        /\ csv_file[1] = Header
        /\ \A k \in 1 .. written : csv_file[k + 1] = ExpectedRow(kept.pairs[k])
        /\ pc = "exit" => written = Len(kept.pairs)

C8_Witness ==
    /\ pc = "exit"
    /\ Len(kept.pairs) = MaxIterations
    /\ Len(csv_file) = MaxIterations + 1
    /\ kept.pairs[1].final_x # kept.pairs[1].final_y
    /\ csv_file[2] # csv_file[MaxIterations + 1]

\* The state of a generator seeded with `seed` after k draws.
RECURSIVE StateAt(_, _)
StateAt(seed, k) ==
    IF k = 0 THEN SeedState(seed) ELSE RngStep(StateAt(seed, k - 1))

\* The k-th draw (1-based) of the stream of configuration c.
StreamDraw(c, k) == Uniform(c.range[1], c.range[2], StateAt(c.seed, k))

\* The sum of `count` draws at positions first, first + 2, first + 4, ...
RECURSIVE SumAlternate(_, _, _)
SumAlternate(c, first, count) ==
    IF count = 0
    THEN 0
    ELSE StreamDraw(c, first) + SumAlternate(c, first + 2, count - 1)

\* C9: with s = samples_per_iteration, record i sums the draws at the odd
\* positions 2s(i-1)+1 .. 2s(i-1)+2s-1 into final_x and those at the even
\* positions 2s(i-1)+2 .. 2s*i into final_y; the generator is always
\* exactly `draws` steps from its seed, and a completed run has made
\* 2 * s * iterations draws.
C9_StreamPositions ==
    (InCall /\ cfg.samples >= 0 /\ cfg.iterations >= 0) =>
        LET s == cfg.samples
        IN  /\ \A i \in 1 .. Len(derived_pairs) :
                   /\ derived_pairs[i].final_x
                          = SumAlternate(cfg, 2 * s * (i - 1) + 1, s)
                   /\ derived_pairs[i].final_y
                          = SumAlternate(cfg, 2 * s * (i - 1) + 2, s)
            /\ rng = StateAt(cfg.seed, draws)
            /\ pc = "loop" => draws = 2 * s * iteration
            /\ pc = "sample" => draws = 2 * s * (iteration - 1) + 2 * sample
            /\ pc = "returned" => draws = 2 * s * cfg.iterations

C9_Witness ==
    /\ pc = "returned"
    /\ Valid(cfg)
    /\ cfg.samples = MaxSamples
    /\ cfg.iterations = MaxIterations
    /\ draws = 2 * MaxSamples * MaxIterations
    /\ derived_pairs[MaxIterations].final_x # derived_pairs[MaxIterations].final_y

\* Record k carries iteration k, and the list has one record per
\* completed iteration.
IndexedFromOne ==
    InCall =>
        /\ \A k \in 1 .. Len(derived_pairs) : derived_pairs[k].iteration = k
        /\ pc = "loop" => Len(derived_pairs) = iteration
        /\ pc = "sample" => Len(derived_pairs) = iteration - 1
        /\ pc = "returned" =>
               Len(derived_pairs) = Max(cfg.iterations, 0)

\* A step within a call leaves the list alone or appends exactly one
\* record to it.
AppendOnly ==
    (InCall /\ InCall') =>
        \/ derived_pairs' = derived_pairs
        \/ /\ Len(derived_pairs') = Len(derived_pairs) + 1
           /\ SubSeq(derived_pairs', 1, Len(derived_pairs)) = derived_pairs
           /\ pc = "sample"
           /\ pc' = "loop"

\* C10: in the returned sequence the record at position k has
\* iteration = k, from 1 to `iterations` without gap or repeat; each pass
\* of the loop appends exactly one record and leaves the earlier records
\* unchanged.
C10_SequentialIterations == [] IndexedFromOne /\ [][AppendOnly]_vars

C10_Witness ==
    /\ pc = "returned"
    /\ cfg.iterations = MaxIterations
    /\ Len(derived_pairs) = MaxIterations
    /\ derived_pairs[MaxIterations].iteration = MaxIterations

=============================================================================
